---- MODULE Spec2Model ----
(***************************************************************************)
(* Model of MLTradingBot (src/core/ml_trading_bot.py): the in-memory order *)
(* ledger order_state, the decision step process_prediction, place_order,  *)
(* cancel_order, the timeout sweep manage_orders and the poll loop         *)
(* run_once / run_loop.                                                    *)
(*                                                                         *)
(* Time is the integer clock `now`, counted in ticks of one millisecond,   *)
(* the resolution of the dry-run order id int(time.time()*1000).  The      *)
(* configured durations (cancel_if_unfilled_after_sec,                     *)
(* monitor_open_orders_every_sec, poll_interval_seconds) are given in the  *)
(* same ticks; the code only compares differences of clock readings with   *)
(* them, so the logic is independent of the scale.                         *)
(*                                                                         *)
(* Prices, balances and sizes are integers counting quanta of 10^-8, the   *)
(* precision round(x, 8) keeps; the arithmetic is exact rational           *)
(* arithmetic followed by the rounding the code applies.                   *)
(***************************************************************************)
EXTENDS Integers, Sequences, FiniteSets, TLC

\* ------------------------------------------------------------------ bounds
\* Clock ticks explored after the start when the operations are called
\* directly.
Span == 2
\* Clock ticks explored by the poll loop beyond the ticks it needs to time
\* out an order (Reserve below).
LoopSpan == 2
\* ---------------------------------------------------- configuration values
\* order_management.cancel_if_unfilled_after_sec (line 206), in ticks.
CancelAfter == 1
\* order_management.monitor_open_orders_every_sec (line 232), in ticks.
ManageInterval == 1
\* ml_api.poll_interval_seconds (line 31), in ticks.
PollInterval == 1
\* risk.max_exposure_usd (line 98), in quanta.
MaxExposure == 15
\* position_size.fixed_size (line 104), in quanta.
FixedSize == 5

\* ------------------------------------------------------- program constants
\* round(x, 8): eight decimal places are kept.
Decimals == 8
\* strategy.min_confidence default 0.6, in hundredths.
MinConfidence == 60
\* strategy.min_profit_after_fee default 0.0, in thousandths.
MinProfitAfterFee == 0
\* strategy.limit_price_slippage default 0.001, in thousandths.
Slippage == 1
\* position_size.percent_of_balance default 0.01, in hundredths.
PercentOfBalance == 1

\* The clock when the process starts: time.time() is far beyond every
\* configured interval.
T0 == ManageInterval + CancelAfter + PollInterval + 1
\* The last clock value explored when the operations are called directly.
MaxTime == T0 + Span

Min(a, b) == IF a <= b THEN a ELSE b

\* A key that is absent from a dict: d.get(k) is None.
None == "None"
\* The outcome of a gateway call that raised (transport error, non-success
\* status, "OKX API error").
Fail == [error |-> "raised"]

\* d.get(k, default)
Get(d, k, default) == IF k \in DOMAIN d THEN d[k] ELSE default

\* None as the value a function returns.
Null == [null |-> TRUE]

\* Python truthiness of the values a response carries (strings or None).
Truthy(v) == v # None /\ v # ""

\* ------------------------------------------------------------ arithmetic
\* Round half to even of the rational n/d, d > 0.
RoundHalfEven(n, d) ==
    LET q == n \div d
        r == n % d
    IN  IF 2 * r < d THEN q
        ELSE IF 2 * r > d THEN q + 1
        ELSE IF q % 2 = 0 THEN q ELSE q + 1

\* <<quotient, remainder>> of (n * 10^k) / d by long division, d > 0.
RECURSIVE LongDiv(_, _, _, _)
LongDiv(q, r, d, k) ==
    IF k = 0 THEN <<q, r>>
    ELSE LongDiv(q * 10 + (r * 10) \div d, (r * 10) % d, d, k - 1)

\* round(n / d, 8) in quanta, for dimensionless n/d with d > 0.
RoundRatio(n, d) ==
    LET qr == LongDiv(n \div d, n % d, d, Decimals)
        q == qr[1]
        r == qr[2]
    IN  IF 2 * r < d THEN q
        ELSE IF 2 * r > d THEN q + 1
        ELSE IF q % 2 = 0 THEN q ELSE q + 1

\* ---------------------------------------------------------------- inputs
\* Strategy configurations (self.strategy).
Whitelists == {{"buy", "sell"}, {"buy", "hold"}}
\* strategy.get("signal_whitelist", ["buy", "sell"]) (line 61)
DefaultWhitelist == {"buy", "sell"}
Strategies ==
    [dry_run : BOOLEAN,
     mode : {"percent", "fixed", "other"},
     max_open_positions : {0, 1, 2},
     signal_whitelist : Whitelists]

\* Predictions the ML endpoint returns (fetch_prediction's data).
Predictions ==
    {[signal |-> "buy", confidence |-> 80, profit_after_fee |-> 2,
      current_price |-> 1500, expected_price |-> 2000],
     [signal |-> "sell", confidence |-> 60, profit_after_fee |-> 0,
      current_price |-> 1500],
     [signal |-> "buy", confidence |-> 40, profit_after_fee |-> 2,
      current_price |-> 1500],
     [signal |-> "sell", confidence |-> 80, profit_after_fee |-> -1,
      current_price |-> 1500, expected_price |-> 1000],
     [signal |-> "hold", confidence |-> 80, profit_after_fee |-> 2,
      current_price |-> 1500],
     [signal |-> "buy", confidence |-> 80, profit_after_fee |-> 2]}

\* get_account_balance("USDT"): an available balance in quanta, or a failure.
BalanceResponses == {Fail, [availBal |-> 0], [availBal |-> 2000]}

\* okx.place_order: the first element of the upstream data, or a failure.
PlaceResponses ==
    {Fail,
     [ordId |-> "g1"],
     [ordId |-> "g2"],
     [ordId |-> "g1", state |-> "filled"],
     [ordId |-> "", sCode |-> "0"]}

\* okx.cancel_order: the first element of the upstream data, or a failure.
CancelResponses ==
    {Fail,
     [sCode |-> "0", ordId |-> "id"],
     [sCode |-> "51400", sMsg |-> "refused"]}

\* Further answers to a direct cancel call: one without a status code, and
\* refusals that carry a state or an order id (empty or not).
DirectCancelResponses ==
    CancelResponses \cup
    {[sMsg |-> "no status"],
     [sCode |-> "51400", state |-> "canceled"],
     [sCode |-> "51400", ordId |-> "id"],
     [sCode |-> "51400", ordId |-> ""]}

\* ------------------------------------------------------------------ state
VARIABLES
    order_state,    \* self.order_state: order id -> meta
    strategy,       \* self.strategy (fixed for the run)
    now,            \* time.time(), in ticks
    pc,             \* position of run_loop
    pred,           \* run_once: the prediction fetched in this iteration
    last_manage,    \* run_loop: last_manage
    last,           \* what the last step did, for the properties
    iter            \* record of the current loop iteration, for the properties

vars == <<order_state, strategy, now, pc, pred, last_manage, last, iter>>

Symbol == "BTC-USDT"
OrderType == "limit"

\* ------------------------------------------------------- decision engine
\* should_trade without the confidence test.
should_trade_any_confidence(p) ==
    IF Get(p, "signal", None) \notin strategy.signal_whitelist THEN FALSE
    ELSE IF Get(p, "profit_after_fee", 0) < MinProfitAfterFee THEN FALSE
    ELSE TRUE

\* should_trade with > where the code has no test for equality: a value
\* equal to a threshold is refused.
should_trade_strict(p) ==
    IF Get(p, "signal", None) \notin Get(strategy, "signal_whitelist", DefaultWhitelist)
    THEN FALSE
    ELSE IF Get(p, "confidence", 0) <= Get(strategy, "min_confidence", MinConfidence)
    THEN FALSE
    ELSE IF Get(p, "profit_after_fee", 0) <= Get(strategy, "min_profit_after_fee", MinProfitAfterFee)
    THEN FALSE
    ELSE TRUE

\* should_trade (lines 59-74); a strategy key that is absent takes the
\* default of its .get.
should_trade(p) ==
    IF Get(p, "signal", None) \notin Get(strategy, "signal_whitelist", DefaultWhitelist)
    THEN FALSE
    ELSE IF Get(p, "confidence", 0) < Get(strategy, "min_confidence", MinConfidence)
    THEN FALSE
    ELSE IF Get(p, "profit_after_fee", 0) < Get(strategy, "min_profit_after_fee", MinProfitAfterFee)
    THEN FALSE
    ELSE TRUE

\* calc_limit_price that pads whatever the side of the market the base is on.
calc_limit_price_always_padded(p, side) ==
    LET current_price == p.current_price
        expected_price == Get(p, "expected_price", current_price)
        base == IF Get(strategy, "use_expected_price", TRUE)
                THEN expected_price ELSE current_price
        slippage == Get(strategy, "limit_price_slippage", Slippage)
    IN  IF side = "buy"
        THEN RoundHalfEven(base * (1000 + slippage), 1000)
        ELSE RoundHalfEven(base * (1000 - slippage), 1000)

\* calc_limit_price with the signs of the padding exchanged.
calc_limit_price_toward(p, side) ==
    LET current_price == p.current_price
        expected_price == Get(p, "expected_price", current_price)
        base == IF Get(strategy, "use_expected_price", TRUE)
                THEN expected_price ELSE current_price
        slippage == Get(strategy, "limit_price_slippage", Slippage)
    IN  IF side = "buy"
        THEN IF base > current_price
             THEN RoundHalfEven(base * (1000 - slippage), 1000)
             ELSE base
        ELSE IF base < current_price
             THEN RoundHalfEven(base * (1000 + slippage), 1000)
             ELSE base

\* calc_limit_price (lines 77-88); the slippage is counted in thousandths.
calc_limit_price(p, side) ==
    LET current_price == p.current_price
        expected_price == Get(p, "expected_price", current_price)
        base == IF Get(strategy, "use_expected_price", TRUE)
                THEN expected_price ELSE current_price
        slippage == Get(strategy, "limit_price_slippage", Slippage)
    IN  IF side = "buy"
        THEN IF base > current_price
             THEN RoundHalfEven(base * (1000 + slippage), 1000)
             ELSE base
        ELSE IF base < current_price
             THEN RoundHalfEven(base * (1000 - slippage), 1000)
             ELSE base

\* calc_size (lines 91-107): [raised, error, size, gw].  gw lists the
\* gateway calls made; error names the exception that leaves the call: the
\* balance query's failure, the division by a zero price, or the ValueError
\* of an unknown mode.  The percentage is counted in hundredths;
\* allocated100 is a hundred times allocated_usd.
calc_size(p, price, bal) ==
    IF strategy.mode = "percent"
    THEN IF bal = Fail
         THEN [raised |-> TRUE, error |-> "balance", size |-> 0, gw |-> <<"balance">>]
         ELSE IF price = 0
         THEN [raised |-> TRUE, error |-> "zero_division", size |-> 0, gw |-> <<"balance">>]
         ELSE LET pct == Get(strategy, "percent_of_balance", PercentOfBalance)
                  max_exposure == Get(strategy, "max_exposure_usd", MaxExposure)
                  allocated100 == Min(bal.availBal * pct, max_exposure * 100)
              IN  [raised |-> FALSE, error |-> "none",
                   size |-> RoundRatio(allocated100, 100 * price),
                   gw |-> <<"balance">>]
    ELSE IF strategy.mode = "fixed"
    THEN [raised |-> FALSE, error |-> "none", size |-> FixedSize, gw |-> << >>]
    ELSE [raised |-> TRUE, error |-> "mode", size |-> 0, gw |-> << >>]

\* ----------------------------------------------------------------- ledger
EmptyLedger == [x \in {} |-> Null]
Put(d, k, v) == [x \in DOMAIN d \cup {k} |-> IF x = k THEN v ELSE d[x]]
Pop(d, k) == [x \in DOMAIN d \ {k} |-> d[x]]

\* now_iso() (src/utils/utils.py line 8) writes the UTC clock reading as ISO
\* text; datetime.fromisoformat(...).timestamp() (line 214) reads it back.
now_iso(t) == [utc |-> t]
fromisoformat(s) == s.utc

\* f"dry_{int(time.time()*1000)}" (line 113)
fake_id(t) == "dry_" \o ToString(t)

\* ordId or ord_id or clOrdId or str(time.time()) (line 129)
response_id(resp, t) ==
    IF Truthy(Get(resp, "ordId", None)) THEN resp.ordId
    ELSE IF Truthy(Get(resp, "ord_id", None)) THEN resp.ord_id
    ELSE IF Truthy(Get(resp, "clOrdId", None)) THEN resp.clOrdId
    ELSE ToString(t)

\* place_order without the except branch of lines 141-143: the failed call
\* is taken for an answer without fields.
place_order_unguarded(ledger, side, price, size, t, resp) ==
    IF strategy.dry_run
    THEN LET meta == [ordId |-> fake_id(t), instId |-> Symbol, side |-> side,
                      px |-> price, sz |-> size, ordType |-> OrderType,
                      state |-> "live", created_at |-> now_iso(t)]
         IN  [ledger |-> Put(ledger, fake_id(t), meta), ret |-> meta, gw |-> << >>]
    ELSE LET ord_id == response_id(resp, t)
             meta == [ordId |-> ord_id, instId |-> Get(resp, "instId", Symbol),
                      side |-> side, px |-> price, sz |-> size,
                      state |-> Get(resp, "state", "live"),
                      created_at |-> now_iso(t)]
         IN  [ledger |-> Put(ledger, ord_id, meta), ret |-> meta, gw |-> <<"place">>]

\* place_order whose live branch marks a record "new" when the gateway's
\* answer carries no state.
place_order_state_new(ledger, side, price, size, t, resp) ==
    IF strategy.dry_run
    THEN LET meta == [ordId |-> fake_id(t), instId |-> Symbol, side |-> side,
                      px |-> price, sz |-> size, ordType |-> OrderType,
                      state |-> "live", created_at |-> now_iso(t)]
         IN  [ledger |-> Put(ledger, fake_id(t), meta), ret |-> meta, gw |-> << >>]
    ELSE IF resp = Fail
    THEN [ledger |-> ledger, ret |-> Null, gw |-> <<"place">>]
    ELSE LET ord_id == response_id(resp, t)
             meta == [ordId |-> ord_id, instId |-> Get(resp, "instId", Symbol),
                      side |-> side,
                      px |-> IF Truthy(Get(resp, "fillPx", None)) THEN resp.fillPx ELSE price,
                      sz |-> IF Truthy(Get(resp, "sz", None)) THEN resp.sz ELSE size,
                      state |-> Get(resp, "state", "new"),
                      created_at |-> now_iso(t)]
         IN  [ledger |-> Put(ledger, ord_id, meta), ret |-> meta, gw |-> <<"place">>]

\* place_order whose dry-run branch returns the record without keeping it.
place_order_dry_unrecorded(ledger, side, price, size, t, resp) ==
    IF strategy.dry_run
    THEN LET meta == [ordId |-> fake_id(t), instId |-> Symbol, side |-> side,
                      px |-> price, sz |-> size, ordType |-> OrderType,
                      state |-> "live", created_at |-> now_iso(t)]
         IN  [ledger |-> ledger, ret |-> meta, gw |-> << >>]
    ELSE IF resp = Fail
    THEN [ledger |-> ledger, ret |-> Null, gw |-> <<"place">>]
    ELSE LET ord_id == response_id(resp, t)
             meta == [ordId |-> ord_id, instId |-> Get(resp, "instId", Symbol),
                      side |-> side,
                      px |-> IF Truthy(Get(resp, "fillPx", None)) THEN resp.fillPx ELSE price,
                      sz |-> IF Truthy(Get(resp, "sz", None)) THEN resp.sz ELSE size,
                      state |-> Get(resp, "state", "live"),
                      created_at |-> now_iso(t)]
         IN  [ledger |-> Put(ledger, ord_id, meta), ret |-> meta, gw |-> <<"place">>]

\* place_order (lines 110-143): [ledger, ret, gw].  px and sz hold the
\* numbers str(price) and str(size) denote.
place_order(ledger, side, price, size, t, resp) ==
    IF strategy.dry_run
    THEN LET meta == [ordId |-> fake_id(t), instId |-> Symbol, side |-> side,
                      px |-> price, sz |-> size, ordType |-> OrderType,
                      state |-> "live", created_at |-> now_iso(t)]
         IN  [ledger |-> Put(ledger, fake_id(t), meta), ret |-> meta, gw |-> << >>]
    ELSE IF resp = Fail
    THEN [ledger |-> ledger, ret |-> Null, gw |-> <<"place">>]
    ELSE LET ord_id == response_id(resp, t)
             meta == [ordId |-> ord_id, instId |-> Get(resp, "instId", Symbol),
                      side |-> side,
                      px |-> IF Truthy(Get(resp, "fillPx", None)) THEN resp.fillPx ELSE price,
                      sz |-> IF Truthy(Get(resp, "sz", None)) THEN resp.sz ELSE size,
                      state |-> Get(resp, "state", "live"),
                      created_at |-> now_iso(t)]
         IN  [ledger |-> Put(ledger, ord_id, meta), ret |-> meta, gw |-> <<"place">>]

\* The test of line 155 on a cancel response.
cancel_confirmed(resp) ==
    \/ Get(resp, "sCode", "0") = "0"
    \/ Get(resp, "state", None) = "canceled"
    \/ Truthy(Get(resp, "ordId", None))

\* cancel_order that drops the entry before it knows the gateway's answer.
cancel_order_pop_first(ledger, order_id, resp) ==
    IF strategy.dry_run
    THEN [ledger |-> IF order_id \in DOMAIN ledger
                     THEN [ledger EXCEPT ![order_id].state = "canceled"]
                     ELSE ledger,
          ret |-> [ordId |-> order_id, state |-> "canceled"],
          gw |-> << >>]
    ELSE [ledger |-> Pop(ledger, order_id),
          ret |-> IF resp = Fail THEN Null ELSE resp,
          gw |-> <<"cancel">>]

\* cancel_order whose dry-run branch drops the entry as the live branch does.
cancel_order_dry_removes(ledger, order_id, resp) ==
    IF strategy.dry_run
    THEN [ledger |-> Pop(ledger, order_id),
          ret |-> [ordId |-> order_id, state |-> "canceled"],
          gw |-> << >>]
    ELSE IF resp = Fail
    THEN [ledger |-> ledger, ret |-> Null, gw |-> <<"cancel">>]
    ELSE [ledger |-> IF cancel_confirmed(resp) THEN Pop(ledger, order_id) ELSE ledger,
          ret |-> resp,
          gw |-> <<"cancel">>]

\* cancel_order whose dry-run branch refuses an order that is not live.
cancel_order_live_only(ledger, order_id, resp) ==
    IF strategy.dry_run
    THEN IF order_id \in DOMAIN ledger /\ ledger[order_id].state = "live"
         THEN [ledger |-> [ledger EXCEPT ![order_id].state = "canceled"],
               ret |-> [ordId |-> order_id, state |-> "canceled"],
               gw |-> << >>]
         ELSE [ledger |-> ledger, ret |-> Null, gw |-> << >>]
    ELSE IF resp = Fail
    THEN [ledger |-> ledger, ret |-> Null, gw |-> <<"cancel">>]
    ELSE [ledger |-> IF cancel_confirmed(resp) THEN Pop(ledger, order_id) ELSE ledger,
          ret |-> resp,
          gw |-> <<"cancel">>]

\* cancel_order that takes an answer without a status code for a refusal.
cancel_order_status_required(ledger, order_id, resp) ==
    IF strategy.dry_run
    THEN [ledger |-> IF order_id \in DOMAIN ledger
                     THEN [ledger EXCEPT ![order_id].state = "canceled"]
                     ELSE ledger,
          ret |-> [ordId |-> order_id, state |-> "canceled"],
          gw |-> << >>]
    ELSE IF resp = Fail
    THEN [ledger |-> ledger, ret |-> Null, gw |-> <<"cancel">>]
    ELSE [ledger |-> IF \/ Get(resp, "sCode", "1") = "0"
                        \/ Get(resp, "state", None) = "canceled"
                        \/ Truthy(Get(resp, "ordId", None))
                     THEN Pop(ledger, order_id) ELSE ledger,
          ret |-> resp,
          gw |-> <<"cancel">>]

\* cancel_order (lines 146-160): [ledger, ret, gw]
cancel_order(ledger, order_id, resp) ==
    IF strategy.dry_run
    THEN [ledger |-> IF order_id \in DOMAIN ledger
                     THEN [ledger EXCEPT ![order_id].state = "canceled"]
                     ELSE ledger,
          ret |-> [ordId |-> order_id, state |-> "canceled"],
          gw |-> << >>]
    ELSE IF resp = Fail
    THEN [ledger |-> ledger, ret |-> Null, gw |-> <<"cancel">>]
    ELSE [ledger |-> IF cancel_confirmed(resp) THEN Pop(ledger, order_id) ELSE ledger,
          ret |-> resp,
          gw |-> <<"cancel">>]

\* sum(1 for o in order_state.values() if o.get("state") == "live") (line 187)
open_count(ledger) ==
    Cardinality({id \in DOMAIN ledger : Get(ledger[id], "state", None) = "live"})

\* The limit test with > where the code has >=.
limit_reached_off_by_one(ledger) == open_count(ledger) > strategy.max_open_positions

\* The limit test of line 188.
limit_reached(ledger) == open_count(ledger) >= strategy.max_open_positions

\* process_prediction (lines 163-201): [ledger, outcome, error, size, gw, ret].
\* The outcome names the branch taken; "raised" is an exception leaving the
\* call (error names it: the KeyError of pred["current_price"] at line 78, or
\* calc_size's); size is the computed size, 0 when none was computed.
process_prediction(ledger, p, t, bal, resp) ==
    LET sig == Get(p, "signal", None)
        side == IF sig = "buy" THEN "buy" ELSE IF sig = "sell" THEN "sell" ELSE None
        quiet(o) == [ledger |-> ledger, outcome |-> o, error |-> "none", size |-> 0,
                     gw |-> << >>, ret |-> Null]
    IN  IF side = None
        THEN quiet("unsupported")
        ELSE IF ~should_trade(p)
        THEN quiet("rejected")
        ELSE IF "current_price" \notin DOMAIN p
        THEN [quiet("raised") EXCEPT !.error = "key"]
        ELSE LET limit_price == calc_limit_price(p, side)
                 sized == calc_size(p, limit_price, bal)
                 stop(o) == [ledger |-> ledger, outcome |-> o, error |-> sized.error,
                             size |-> sized.size, gw |-> sized.gw, ret |-> Null]
             IN  IF sized.raised
                 THEN stop("raised")
                 ELSE IF sized.size <= 0
                 THEN stop("zero_size")
                 ELSE IF limit_reached(ledger)
                 THEN stop("limit")
                 ELSE LET placed == place_order(ledger, side, limit_price, sized.size, t, resp)
                      IN  [ledger |-> placed.ledger,
                           outcome |-> IF placed.ret = Null THEN "place_failed" ELSE "placed",
                           error |-> "none",
                           size |-> sized.size,
                           gw |-> sized.gw \o placed.gw,
                           ret |-> placed.ret]

\* The timeout test with >= where the code has >.
expired_at_timeout(meta, t) ==
    /\ Get(meta, "state", None) = "live"
    /\ t - fromisoformat(meta.created_at) >= CancelAfter

\* The timeout test of lines 208-217 on one entry at clock reading t.
expired(meta, t) ==
    /\ Get(meta, "state", None) = "live"
    /\ t - fromisoformat(meta.created_at) > CancelAfter

\* The loop of manage_orders (lines 207-219) over the snapshot snap, for
\* the ids still to visit; resps gives the gateway's answer per order.
RECURSIVE sweep(_, _, _, _, _, _)
sweep(ledger, snap, ids, t, resps, gw) ==
    IF ids = {} THEN [ledger |-> ledger, gw |-> gw]
    ELSE LET ord_id == CHOOSE x \in ids : TRUE
             rest == ids \ {ord_id}
         IN  IF expired(snap[ord_id], t)
             THEN LET c == cancel_order(ledger, ord_id, resps[ord_id])
                  IN  sweep(c.ledger, snap, rest, t, resps, gw \o c.gw)
             ELSE sweep(ledger, snap, rest, t, resps, gw)

\* manage_orders (lines 204-219): [ledger, gw]
manage_orders(ledger, t, resps) == sweep(ledger, ledger, DOMAIN ledger, t, resps, << >>)

\* The ids manage_orders cancels at clock reading t, and the gateway answers
\* to enumerate for them (none is read in dry-run).
expired_ids(ledger, t) == {id \in DOMAIN ledger : expired(ledger[id], t)}
sweep_responses(ledger, t) ==
    [expired_ids(ledger, t) -> IF strategy.dry_run THEN {Fail} ELSE CancelResponses]

\* The gateway answers to enumerate for one decision: the balance is read in
\* percent mode only, the place-order answer in live mode only.
balance_responses == IF strategy.mode = "percent" THEN BalanceResponses ELSE {Fail}
place_responses == IF strategy.dry_run THEN {Fail} ELSE PlaceResponses
cancel_responses == IF strategy.dry_run THEN {Fail} ELSE DirectCancelResponses

\* ------------------------------------------------------------------- Init
\* The state after __init__ (lines 26-41) and the first lines of run_loop
\* (line 231): an empty ledger, last_manage = 0.
NoIteration == [fetch |-> "pending", processed |-> FALSE, once_sweep |-> FALSE,
                due |-> "pending", loop_sweep |-> FALSE,
                swept_at |-> 0, gaps_ok |-> TRUE]

\* iter after a run of manage_orders at clock reading t: swept_at is the
\* time of the latest run, gaps_ok whether every two consecutive runs so far
\* were more than the sweep interval apart.
swept(it, t) ==
    [it EXCEPT !.swept_at = t,
               !.gaps_ok = it.gaps_ok /\ (it.swept_at = 0 \/ t - it.swept_at > ManageInterval)]

Init ==
    /\ order_state = EmptyLedger
    /\ strategy \in Strategies
    /\ now = T0
    /\ pc = "fetch"
    /\ pred = Null
    /\ last_manage = 0
    /\ last = [op |-> "init"]
    /\ iter = NoIteration

LoopVars == <<pc, pred, last_manage, iter>>

\* What `last` keeps of a decision and of a sweep.
process_record(p, r, resp) ==
    [op |-> "process", pred |-> p, outcome |-> r.outcome, error |-> r.error,
     size |-> r.size, gw |-> r.gw, ret |-> r.ret,
     place_resp |-> IF \E i \in DOMAIN r.gw : r.gw[i] = "place" THEN resp ELSE Null]
manage_record(resps, r) == [op |-> "manage", resps |-> resps, gw |-> r.gw]

\* --------------------------------------------- operations called directly
\* Time passes between two calls.
Tick ==
    /\ now < MaxTime
    /\ now' = now + 1
    /\ last' = [op |-> "tick"]
    /\ UNCHANGED <<order_state, strategy, LoopVars>>

\* A call process_prediction(pred).
ProcessPrediction ==
    \E p \in Predictions, bal \in balance_responses, resp \in place_responses :
        LET r == process_prediction(order_state, p, now, bal, resp)
        IN  /\ order_state' = r.ledger
            /\ last' = process_record(p, r, resp)
            /\ UNCHANGED <<strategy, now, LoopVars>>

\* A call manage_orders().
ManageOrders ==
    \E resps \in sweep_responses(order_state, now) :
        LET r == manage_orders(order_state, now, resps)
        IN  /\ order_state' = r.ledger
            /\ last' = manage_record(resps, r)
            /\ UNCHANGED <<strategy, now, LoopVars>>

\* Order ids a caller may pass: the ledger's, and one that was never issued.
UnknownId == "unknown"

\* A call cancel_order(symbol, order_id).
CancelOrder ==
    \E id \in DOMAIN order_state \cup {UnknownId},
       resp \in cancel_responses :
        LET r == cancel_order(order_state, id, resp)
        IN  /\ order_state' = r.ledger
            /\ last' = [op |-> "cancel", id |-> id, resp |-> resp, ret |-> r.ret,
                        gw |-> r.gw,
                        was |-> IF id \in DOMAIN order_state
                                THEN order_state[id].state ELSE "absent"]
            /\ UNCHANGED <<strategy, now, LoopVars>>

Next == ProcessPrediction \/ ManageOrders \/ CancelOrder \/ Tick

Spec == Init /\ [][Next]_vars

\* The same calls in a dry-run process.
DryInit == Init /\ strategy.dry_run
DrySpec == DryInit /\ [][Next]_vars

\* Arguments of a direct call place_order(symbol, side, price, size).
PlaceSides == {"buy", "sell"}
PlacePrices == {1500}
PlaceSizes == {5}

\* A call place_order(symbol, side, price, size).
PlaceOrder ==
    \E side \in PlaceSides, price \in PlacePrices, size \in PlaceSizes,
       resp \in place_responses :
        LET r == place_order(order_state, side, price, size, now, resp)
        IN  /\ order_state' = r.ledger
            /\ last' = [op |-> "place", side |-> side, price |-> price,
                        size |-> size, resp |-> resp, ret |-> r.ret, gw |-> r.gw]
            /\ UNCHANGED <<strategy, now, LoopVars>>

\* The four operations called directly, in a dry-run process.
PlaceNext == ProcessPrediction \/ PlaceOrder \/ ManageOrders \/ CancelOrder \/ Tick

DryPlaceSpec == DryInit /\ [][PlaceNext]_vars

\* -------------------------------------------------------------- poll loop
\* Ticks the loop needs, after an order is placed, to reach the sweep that
\* times it out when only the sleeps move the clock.
Reserve == CancelAfter + ManageInterval + PollInterval
\* The last clock value the loop explores.
LoopMaxTime == T0 + LoopSpan + Reserve

\* The loop has ended: an exception reached line 243, or the operator's
\* KeyboardInterrupt reached line 241.
Terminal == {"crashed", "interrupted"}

\* fetch_prediction (lines 44-56) returns the decoded body, or None after
\* any failure; an empty body is as falsy as None at line 223.
EmptyBody == << >>
FetchResults == Predictions \cup {Null, EmptyBody}

\* Line 223 without its early return.
after_fetch_no_return(data) == "process"

\* Line 223: `if not pred: return`, else on to process_prediction.
after_fetch(data) == IF data = Null \/ data = EmptyBody THEN "check" ELSE "process"

\* The timer test with its operands swapped.
sweep_due_reversed(t, lm) == (lm - t) > ManageInterval

\* Line 237: (time.time() - last_manage) > manage_interval
sweep_due(t, lm) == (t - lm) > ManageInterval

\* Execution takes time: the clock moves between two statements of the loop.
LoopTick ==
    /\ pc \notin Terminal
    /\ now < T0 + LoopSpan
    /\ now' = now + 1
    /\ last' = [op |-> "tick"]
    /\ UNCHANGED <<order_state, strategy, LoopVars>>

\* run_once, line 222: pred = self.fetch_prediction()
Fetch ==
    /\ pc = "fetch"
    /\ \E data \in FetchResults :
        /\ pred' = data
        /\ pc' = after_fetch(data)
        /\ iter' = [NoIteration EXCEPT
                      !.fetch = IF data = Null THEN "failed"
                                ELSE IF data = EmptyBody THEN "empty" ELSE "ok",
                      !.swept_at = iter.swept_at,
                      !.gaps_ok = iter.gaps_ok]
    /\ last' = [op |-> "fetch"]
    /\ UNCHANGED <<order_state, strategy, now, last_manage>>

\* run_once, line 226: self.process_prediction(pred); an exception leaves
\* run_once and the while loop, and is caught at line 243.
Process ==
    /\ pc = "process"
    /\ \E bal \in balance_responses, resp \in place_responses :
        LET r == process_prediction(order_state, pred, now, bal, resp)
        IN  /\ order_state' = r.ledger
            /\ last' = process_record(pred, r, resp)
            /\ pc' = IF r.outcome = "raised" THEN "crashed" ELSE "sweep_once"
    /\ pred' = Null
    /\ iter' = [iter EXCEPT !.processed = TRUE]
    /\ UNCHANGED <<strategy, now, last_manage>>

\* run_once, line 227: self.manage_orders()
SweepOnce ==
    /\ pc = "sweep_once"
    /\ \E resps \in sweep_responses(order_state, now) :
        LET r == manage_orders(order_state, now, resps)
        IN  /\ order_state' = r.ledger
            /\ last' = manage_record(resps, r)
    /\ pc' = "check"
    /\ iter' = [swept(iter, now) EXCEPT !.once_sweep = TRUE]
    /\ UNCHANGED <<strategy, now, pred, last_manage>>

\* run_loop, line 237: the test of the sweep timer.
Check ==
    /\ pc = "check"
    /\ pc' = IF sweep_due(now, last_manage) THEN "sweep_loop" ELSE "sleep"
    /\ iter' = [iter EXCEPT !.due = IF sweep_due(now, last_manage) THEN "yes" ELSE "no"]
    /\ last' = [op |-> "check"]
    /\ UNCHANGED <<order_state, strategy, now, pred, last_manage>>

\* run_loop, line 238: self.manage_orders()
SweepLoop ==
    /\ pc = "sweep_loop"
    /\ \E resps \in sweep_responses(order_state, now) :
        LET r == manage_orders(order_state, now, resps)
        IN  /\ order_state' = r.ledger
            /\ last' = manage_record(resps, r)
    /\ pc' = "reset"
    /\ iter' = [swept(iter, now) EXCEPT !.loop_sweep = TRUE]
    /\ UNCHANGED <<strategy, now, pred, last_manage>>

\* run_loop, line 239: last_manage = time.time()
Reset ==
    /\ pc = "reset"
    /\ last_manage' = now
    /\ pc' = "sleep"
    /\ last' = [op |-> "reset"]
    /\ UNCHANGED <<order_state, strategy, now, pred, iter>>

\* run_loop, line 240: time.sleep(self.poll_interval); the loop is followed
\* up to the clock value LoopMaxTime.
Sleep ==
    /\ pc = "sleep"
    /\ now + PollInterval <= LoopMaxTime
    /\ now' = now + PollInterval
    /\ pc' = "fetch"
    /\ last' = [op |-> "sleep"]
    /\ UNCHANGED <<order_state, strategy, pred, last_manage, iter>>

\* The operator stops the bot: KeyboardInterrupt, caught at line 241.
Interrupt ==
    /\ pc \notin Terminal
    /\ pc' = "interrupted"
    /\ last' = [op |-> "interrupt"]
    /\ UNCHANGED <<order_state, strategy, now, pred, last_manage, iter>>

LoopStep == Fetch \/ Process \/ SweepOnce \/ Check \/ SweepLoop \/ Reset \/ Sleep

LoopNext == LoopStep \/ LoopTick \/ Interrupt

\* The loop is explored with the whitelist that admits one kind of order.
LoopInit == Init /\ strategy.signal_whitelist = {"buy", "hold"}

LoopSpec == LoopInit /\ [][LoopNext]_vars

\* The loop of a dry-run process under the scheduling of sequential code:
\* while the loop has not ended, its next statement is executed.
DryLoopInit == LoopInit /\ strategy.dry_run
FairDryLoopSpec == DryLoopInit /\ [][LoopNext]_vars /\ WF_vars(LoopStep)

\* ------------------------------------------- decision functions on their own
\* Strategy blocks that set the keys the decision functions read, and one
\* that leaves them all to their defaults.  Thresholds are counted as the
\* prediction's fields are: confidence in hundredths, profit_after_fee,
\* limit_price_slippage in thousandths, percent_of_balance in hundredths,
\* max_exposure_usd in quanta.
FnStrategies ==
    [dry_run : {TRUE},
     mode : {"percent"},
     max_open_positions : {1},
     signal_whitelist : Whitelists,
     min_confidence : {0, 60, 90},
     min_profit_after_fee : {-1, 0, 1},
     use_expected_price : BOOLEAN,
     limit_price_slippage : {0, 1, 50},
     percent_of_balance : {1, 50},
     max_exposure_usd : {15, 20}]
    \cup {[dry_run |-> TRUE, mode |-> "percent", max_open_positions |-> 1]}

\* Predictions for should_trade: every combination of a signal, a
\* confidence and a profit around the thresholds, and predictions that lack
\* one of the three fields.
FnPredictions ==
    [signal : {"buy", "sell", "hold", "moon"},
     confidence : {0, 59, 60, 61, 90},
     profit_after_fee : {-1, 0, 1}]
    \cup {[confidence |-> 90, profit_after_fee |-> 1],
          [signal |-> "buy", profit_after_fee |-> 1],
          [signal |-> "buy", confidence |-> 90]}

\* Predictions for calc_limit_price: an expected price below, at and above
\* the current price, or none.
PricePredictions ==
    [current_price : {1000, 1500}, expected_price : {1, 500, 1000, 1500, 2000}]
    \cup [current_price : {1000, 1500}]

\* Prices for calc_size, in quanta.
FnPrices == {0, 1, 3, 9, 2002}

FnInit ==
    /\ order_state = EmptyLedger
    /\ strategy \in FnStrategies
    /\ now = T0
    /\ pc = "fetch"
    /\ pred = Null
    /\ last_manage = 0
    /\ last = [op |-> "init"]
    /\ iter = NoIteration

\* A call should_trade(pred).
CallShouldTrade ==
    /\ \E p \in FnPredictions :
          last' = [op |-> "should_trade", pred |-> p, ret |-> should_trade(p)]
    /\ UNCHANGED <<order_state, strategy, now, LoopVars>>

\* A call calc_limit_price(pred, side).
CallCalcLimitPrice ==
    /\ \E p \in PricePredictions, side \in PlaceSides :
          last' = [op |-> "calc_limit_price", pred |-> p, side |-> side,
                   ret |-> calc_limit_price(p, side)]
    /\ UNCHANGED <<order_state, strategy, now, LoopVars>>

\* A call calc_size(pred, price); the balance is the gateway's answer.
CallCalcSize ==
    /\ \E price \in FnPrices, bal \in BalanceResponses :
          last' = [op |-> "calc_size", price |-> price, bal |-> bal,
                   ret |-> calc_size([current_price |-> price], price, bal)]
    /\ UNCHANGED <<order_state, strategy, now, LoopVars>>

FnNext == CallShouldTrade \/ CallCalcLimitPrice \/ CallCalcSize

FnSpec == FnInit /\ [][FnNext]_vars

\* ============================================================= properties
LiveIds(ledger) == {id \in DOMAIN ledger : ledger[id].state = "live"}

\* C1: over any sequence of process_prediction, manage_orders and
\* cancel_order calls from the empty ledger, in dry-run and in live mode and
\* whatever the gateway answers, the number of ledger entries in state live
\* never exceeds max_open_positions.
C1_LiveWithinLimit == Cardinality(LiveIds(order_state)) <= strategy.max_open_positions

\* C1 witness: a decision was refused at the limit, with the ledger full.
C1_Witness ==
    /\ last.op = "process"
    /\ last.outcome = "limit"
    /\ Cardinality(LiveIds(order_state)) = strategy.max_open_positions
    /\ strategy.max_open_positions = 2

\* The conditions under which process_prediction may place an order, for the
\* prediction p, the computed size and the ledger before the call.
MayPlace(p, raised, size, ledger) ==
    /\ p.signal \in {"buy", "sell"}
    /\ p.signal \in strategy.signal_whitelist
    /\ p.confidence >= MinConfidence
    /\ p.profit_after_fee >= MinProfitAfterFee
    /\ ~raised
    /\ size > 0
    /\ Cardinality(LiveIds(ledger)) < strategy.max_open_positions

\* C2: process_prediction changes the ledger only when the signal is buy or
\* sell, should_trade accepts it, the computed size is positive and fewer
\* than max_open_positions entries are live; in every other case the ledger
\* after the call equals the ledger before it and neither a place-order nor
\* a cancel-order call reaches the gateway.
C2_ProcessFrame ==
    [][last'.op = "process" =>
        LET may == MayPlace(last'.pred, last'.outcome = "raised", last'.size, order_state)
            calls == {last'.gw[i] : i \in DOMAIN last'.gw}
        IN  /\ order_state' # order_state => may
            /\ ~may => /\ order_state' = order_state
                       /\ calls \cap {"place", "cancel"} = {}]_vars

\* C2 witness: a whitelisted signal that is neither buy nor sell was ignored
\* while the ledger held a live order.
C2_Witness ==
    /\ last.op = "process"
    /\ last.pred.signal = "hold"
    /\ last.pred.signal \in strategy.signal_whitelist
    /\ last.outcome = "unsupported"
    /\ LiveIds(order_state) # {}

\* The gateway's answer to a cancel call reports success.
Confirms(resp) == resp # Fail /\ "sCode" \in DOMAIN resp /\ resp.sCode = "0"

\* C3: after manage_orders, every entry that was live with now - created_at
\* strictly above cancel_if_unfilled_after_sec is canceled in place (dry-run)
\* or gone from the ledger (live mode, when the gateway confirmed the
\* cancellation); every other entry is exactly as it was.
C3_SweepEffect ==
    [][last'.op = "manage" =>
        \A id \in DOMAIN order_state :
            LET meta == order_state[id]
                timed_out == meta.state = "live" /\ now - meta.created_at.utc > CancelAfter
            IN  IF timed_out
                THEN /\ strategy.dry_run =>
                            /\ id \in DOMAIN order_state'
                            /\ order_state'[id] = [meta EXCEPT !.state = "canceled"]
                     /\ (~strategy.dry_run /\ Confirms(last'.resps[id])) =>
                            id \notin DOMAIN order_state'
                ELSE /\ id \in DOMAIN order_state'
                     /\ order_state'[id] = meta]_vars

\* C3 witness: a sweep canceled a timed-out order and left a younger live
\* order alone.
C3_Witness ==
    /\ last.op = "manage"
    /\ DOMAIN last.resps # {}
    /\ \E id \in DOMAIN order_state :
          /\ order_state[id].state = "live"
          /\ now - order_state[id].created_at.utc <= CancelAfter
          /\ now - order_state[id].created_at.utc > 0

\* C8: in live mode, when the gateway's place-order call fails, place_order
\* returns None, the ledger is what it was before the call, and the poll
\* loop goes on to its next statement instead of ending.
C8_PlaceFailure ==
    [][(last'.op = "process" /\ last'.place_resp = Fail) =>
        /\ ~strategy.dry_run
        /\ last'.ret = Null
        /\ order_state' = order_state
        /\ pc' = "sweep_once"]_vars

\* C8 witness: a placement failed in the loop while the ledger held an order.
C8_Witness ==
    /\ last.op = "process"
    /\ last.place_resp = Fail
    /\ pc = "sweep_once"
    /\ LiveIds(order_state) # {}

\* C9: in live mode, when the gateway's cancel call fails for an order of a
\* sweep, that order stays in the ledger as it was (live, still counted, still
\* timed out for the next sweep), the sweep still handles the other
\* timed-out orders, and the poll loop goes on.
C9_CancelFailure ==
    [][(last'.op = "manage" /\ ~strategy.dry_run) =>
        /\ \A id \in DOMAIN last'.resps :
              /\ last'.resps[id] = Fail =>
                    /\ id \in DOMAIN order_state'
                    /\ order_state'[id] = order_state[id]
                    /\ order_state'[id].state = "live"
                    /\ id \in expired_ids(order_state', now')
              /\ Confirms(last'.resps[id]) => id \notin DOMAIN order_state'
        /\ Len(last'.gw) = Cardinality(DOMAIN last'.resps)
        /\ pc' \in {"check", "reset"}]_vars

\* C9 witness: one sweep met a failing cancel call and a confirmed one.
C9_Witness ==
    /\ last.op = "manage"
    /\ ~strategy.dry_run
    /\ \E a, b \in DOMAIN last.resps :
          /\ last.resps[a] = Fail
          /\ Confirms(last.resps[b])
          /\ a \in DOMAIN order_state
          /\ b \notin DOMAIN order_state

\* C10: every placement that inserts a record uses an order id that is not
\* yet in the ledger, so no placement overwrites a record; in dry-run this
\* holds for any two placements, however close in time.
C10_UniqueIds ==
    [][(last'.op = "process" /\ last'.outcome = "placed") =>
        last'.ret.ordId \notin DOMAIN order_state]_vars

IsLive(id) == id \in DOMAIN order_state /\ order_state[id].state = "live"
IsCanceled(id) == id \in DOMAIN order_state /\ order_state[id].state = "canceled"

\* C4: in dry-run, while the poll loop keeps iterating and its sleeps move
\* the clock, every order that is placed is eventually canceled, also when
\* the prediction fetches of the later iterations fail.  The orders followed
\* are those placed early enough for their timeout to lie within the clock
\* values explored.
C4_EventuallyCanceled ==
    \A t \in T0..(T0 + LoopSpan) :
        IsLive(fake_id(t)) ~> (IsCanceled(fake_id(t)) \/ pc \in Terminal)

\* C4 witness: an order was canceled by the timer-driven sweep of an
\* iteration whose fetch failed.
C4_Witness ==
    /\ strategy.dry_run
    /\ iter.fetch = "failed"
    /\ iter.loop_sweep
    /\ last.op = "manage"
    /\ \E id \in DOMAIN last.resps : IsCanceled(id)

\* C5 as stated: when the fetch fails, neither process_prediction nor
\* manage_orders runs in that iteration, and the loop does not end.
C5_FetchFailureSkipsAll ==
    iter.fetch = "failed" =>
        /\ ~iter.processed
        /\ ~iter.once_sweep
        /\ ~iter.loop_sweep
        /\ pc # "crashed"

\* C5 amended: when the fetch fails, process_prediction and the sweep of
\* run_once do not run and no order is placed in that iteration, the
\* timer-driven sweep of run_loop runs exactly when it is due, and the loop
\* does not end but reaches its sleep.
C5_FetchFailureSkipsDecision ==
    /\ [](iter.fetch = "failed" =>
            /\ ~iter.processed
            /\ ~iter.once_sweep
            /\ pc \in {"check", "sweep_loop", "reset", "sleep", "fetch", "interrupted"}
            /\ iter.loop_sweep => iter.due = "yes"
            /\ (pc \in {"reset", "sleep"} /\ iter.due = "yes") => iter.loop_sweep)
    /\ [][iter'.fetch = "failed" =>
            /\ DOMAIN order_state' \subseteq DOMAIN order_state
            /\ LiveIds(order_state') \subseteq LiveIds(order_state)
            /\ order_state' # order_state => last'.op = "manage"]_vars

\* C5 witness: after a failed fetch the timer-driven sweep ran and timed out
\* an order.
C5_Witness ==
    /\ iter.fetch = "failed"
    /\ iter.loop_sweep
    /\ pc = "reset"
    /\ last.op = "manage"
    /\ DOMAIN last.resps # {}

\* C6: in every iteration manage_orders runs if and only if the sweep timer
\* is due, hence at most once, and any two consecutive runs are more than
\* one sweep interval apart.
C6_SweepOnlyWhenDue ==
    /\ pc = "sleep" =>
          /\ (iter.once_sweep \/ iter.loop_sweep) <=> iter.due = "yes"
          /\ ~(iter.once_sweep /\ iter.loop_sweep)
    /\ iter.gaps_ok

\* C7: when the balance query of calc_size fails, no order is placed, the
\* ledger is unchanged and the poll loop goes on instead of ending.
C7_BalanceFailureRecovered ==
    [][(last'.op = "process" /\ last'.error = "balance") =>
        /\ order_state' = order_state
        /\ \A i \in DOMAIN last'.gw : last'.gw[i] # "place"
        /\ pc' = "sweep_once"]_vars

\* C11: in dry-run no call of process_prediction, manage_orders or
\* cancel_order removes an entry: the set of order ids in the ledger only
\* grows, and an order that a cancel call or a sweep cancels is retained,
\* unchanged but for its state canceled.
C11_DryLedgerGrows ==
    [][/\ DOMAIN order_state \subseteq DOMAIN order_state'
       /\ last'.op \in {"cancel", "manage"} =>
             \A id \in DOMAIN order_state :
                 \/ order_state'[id] = order_state[id]
                 \/ /\ order_state[id].state = "live"
                    /\ order_state'[id] = [order_state[id] EXCEPT !.state = "canceled"]]_vars

\* C11 witness: a direct cancel call and a sweep have each canceled an order,
\* and both orders are still in the ledger.
C11_Witness ==
    /\ strategy.dry_run
    /\ last.op = "manage"
    /\ \E a \in DOMAIN last.resps : IsCanceled(a)
    /\ \E b \in DOMAIN order_state \ DOMAIN last.resps : IsCanceled(b)

\* C14: in dry-run a cancel_order call on an order that is already canceled
\* leaves the ledger as the first call left it and returns the same canceled
\* acknowledgment, not an error; a call with an id that is not in the ledger
\* changes nothing and returns the acknowledgment too; no call reaches the
\* gateway.
C14_DryCancelIdempotent ==
    [][(last'.op = "cancel" /\ strategy.dry_run) =>
        /\ last'.ret = [ordId |-> last'.id, state |-> "canceled"]
        /\ last'.gw = << >>
        /\ last'.was \in {"canceled", "absent"} => order_state' = order_state
        /\ last'.was = "canceled" => order_state'[last'.id].state = "canceled"
        /\ LET again == cancel_order(order_state', last'.id, Fail)
           IN  /\ again.ledger = order_state'
               /\ again.ret = last'.ret]_vars

\* C14 witness: a cancel call was made on an order that was canceled already.
C14_Witness ==
    /\ strategy.dry_run
    /\ last.op = "cancel"
    /\ last.was = "canceled"
    /\ IsCanceled(last.id)

\* A step that ran place_order: a direct call, or a decision that got as far
\* as placing.
Placing(l) ==
    \/ l.op = "place"
    \/ l.op = "process" /\ l.outcome \in {"placed", "place_failed"}

\* C13: in dry-run place_order always returns an order record with state
\* live, that record is in the ledger under its synthesized id when the call
\* returns, and no gateway call is made by it.
C13_DryPlaceRecorded ==
    [][(Placing(last') /\ strategy.dry_run) =>
        /\ last'.ret # Null
        /\ last'.ret.state = "live"
        /\ last'.ret.ordId = fake_id(now)
        /\ last'.ret.ordId \in DOMAIN order_state'
        /\ order_state'[last'.ret.ordId] = last'.ret
        /\ \A i \in DOMAIN last'.gw : last'.gw[i] \notin {"place", "cancel"}
        /\ last'.op = "place" => last'.gw = << >>]_vars

\* C13 witness: a direct dry-run placement returned a live record that is in
\* the ledger beside an older canceled one.
C13_Witness ==
    /\ strategy.dry_run
    /\ last.op = "place"
    /\ IsLive(last.ret.ordId)
    /\ \E id \in DOMAIN order_state : IsCanceled(id)

\* C20: canceled is terminal: once the record under an order id has state
\* canceled, no call of process_prediction, place_order, manage_orders or
\* cancel_order makes the record under that id live again.
C20_CanceledIsTerminal ==
    [][\A id \in DOMAIN order_state :
          order_state[id].state = "canceled" =>
              ~(id \in DOMAIN order_state' /\ order_state'[id].state = "live")]_vars

\* C17 as stated: in every reachable state, in dry-run and in live mode,
\* every record in the ledger has state live or canceled, whatever fields
\* the gateway's place-order response carries.
C17_StateLiveOrCanceled ==
    \A id \in DOMAIN order_state : order_state[id].state \in {"live", "canceled"}

\* A live-mode cancel_order call on an order that is in the ledger.
LiveCancel(l) == l.op = "cancel" /\ ~strategy.dry_run /\ l.was # "absent"

\* C18 as stated: in live mode cancel_order removes the order from the
\* ledger exactly when the gateway's response carries a zero status code, or
\* a canceled state, or an order id field; a response that carries none of
\* the three leaves the entry in the ledger.
C18_RemovedIffSuccessField ==
    [][LiveCancel(last') =>
        LET resp == last'.resp
            success == /\ resp # Fail
                       /\ \/ "sCode" \in DOMAIN resp /\ resp.sCode = "0"
                          \/ "state" \in DOMAIN resp /\ resp.state = "canceled"
                          \/ "ordId" \in DOMAIN resp
        IN  last'.id \notin DOMAIN order_state' <=> success]_vars

\* C18 amended: in live mode cancel_order removes the order from the ledger
\* exactly when the gateway call returns and its response has no status
\* code or a zero one, or a canceled state, or a non-empty order id; a
\* failed call, and a response with a non-zero status code, no canceled
\* state and no non-empty order id, leave the entry; the other entries are
\* never touched.
C18_RemovedIffNotRefused ==
    [][LiveCancel(last') =>
        LET resp == last'.resp
            success == /\ resp # Fail
                       /\ \/ "sCode" \notin DOMAIN resp
                          \/ resp.sCode = "0"
                          \/ "state" \in DOMAIN resp /\ resp.state = "canceled"
                          \/ "ordId" \in DOMAIN resp /\ resp.ordId # ""
        IN  /\ last'.id \notin DOMAIN order_state' <=> success
            /\ ~success => order_state' = order_state
            /\ DOMAIN order_state' \subseteq DOMAIN order_state
            /\ \A other \in DOMAIN order_state \ {last'.id} :
                  /\ other \in DOMAIN order_state'
                  /\ order_state'[other] = order_state[other]]_vars

\* C18 witness: a response without a status code, a state or an order id
\* removed an order while another order stayed in the ledger.
C18_Witness ==
    /\ LiveCancel(last)
    /\ last.resp = [sMsg |-> "no status"]
    /\ last.id \notin DOMAIN order_state
    /\ order_state # EmptyLedger

\* The thresholds and the whitelist in force.
min_confidence == Get(strategy, "min_confidence", MinConfidence)
min_profit_after_fee == Get(strategy, "min_profit_after_fee", MinProfitAfterFee)
signal_whitelist == Get(strategy, "signal_whitelist", DefaultWhitelist)

\* C12: should_trade returns true if and only if the signal is in the
\* configured whitelist, confidence >= min_confidence and profit_after_fee
\* >= min_profit_after_fee, values equal to a threshold passing; it returns
\* false for every prediction with a confidence below the minimum or with a
\* signal outside the whitelist, whatever the other fields are.
C12_ShouldTradeIff ==
    last.op = "should_trade" =>
        LET p == last.pred
            has(k) == k \in DOMAIN p
        IN  /\ (has("signal") /\ has("confidence") /\ has("profit_after_fee")) =>
                  (last.ret <=> /\ p.signal \in signal_whitelist
                                /\ p.confidence >= min_confidence
                                /\ p.profit_after_fee >= min_profit_after_fee)
            /\ (has("confidence") /\ p.confidence < min_confidence) => ~last.ret
            /\ (~has("signal") \/ p.signal \notin signal_whitelist) => ~last.ret

\* C12 witness: a prediction whose confidence and profit equal non-default
\* thresholds was accepted.
C12_Witness ==
    /\ last.op = "should_trade"
    /\ last.ret
    /\ min_confidence = 90
    /\ min_profit_after_fee = 1
    /\ last.pred.confidence = min_confidence
    /\ last.pred.profit_after_fee = min_profit_after_fee

Abs(x) == IF x < 0 THEN -x ELSE x

\* The price n/1000 rounded to the quantum q: q is within half a quantum.
RoundedTo(q, n) == 2 * Abs(1000 * q - n) <= 1000

\* The arguments of the last calc_limit_price call.
limit_price_slippage == Get(strategy, "limit_price_slippage", Slippage)
use_expected_price == Get(strategy, "use_expected_price", TRUE)
CurrentOf(l) == l.pred.current_price
ExpectedOf(l) == Get(l.pred, "expected_price", l.pred.current_price)
BaseOf(l) == IF use_expected_price THEN ExpectedOf(l) ELSE CurrentOf(l)
Padded(l) ==
    /\ l.op = "calc_limit_price"
    /\ limit_price_slippage > 0
    /\ \/ l.side = "buy" /\ BaseOf(l) > CurrentOf(l)
       \/ l.side = "sell" /\ BaseOf(l) < CurrentOf(l)

\* C15: with use_expected_price set, calc_limit_price for side buy returns
\* expected_price * (1 + slippage) when expected_price > current_price and
\* expected_price unchanged when expected_price <= current_price; for side
\* sell it returns expected_price * (1 - slippage) when expected_price <
\* current_price and expected_price unchanged otherwise; the result is
\* rounded to 8 decimal places (one quantum).
C15_LimitPriceRule ==
    (last.op = "calc_limit_price" /\ use_expected_price) =>
        LET cur == CurrentOf(last)
            exp == ExpectedOf(last)
        IN  IF last.side = "buy"
            THEN IF exp > cur
                 THEN RoundedTo(last.ret, exp * (1000 + limit_price_slippage))
                 ELSE last.ret = exp
            ELSE IF exp < cur
                 THEN RoundedTo(last.ret, exp * (1000 - limit_price_slippage))
                 ELSE last.ret = exp

\* C15 witness: a sell below the current price was padded downwards by a
\* slippage of five percent.
C15_Witness ==
    /\ last.op = "calc_limit_price"
    /\ use_expected_price
    /\ last.side = "sell"
    /\ limit_price_slippage = 50
    /\ ExpectedOf(last) = 1000
    /\ CurrentOf(last) = 1500
    /\ last.ret = 950

\* C19 as stated: whenever calc_limit_price applies slippage, the returned
\* price is closer to current_price than base is.
C19_PaddedTowardCurrent ==
    Padded(last) => Abs(last.ret - CurrentOf(last)) < Abs(BaseOf(last) - CurrentOf(last))

\* C19 amended: whenever calc_limit_price applies slippage, the padding
\* moves the limit price away from current_price, to the side on which the
\* order is more likely to fill: a buy is priced at or above base, a sell at
\* or below base, so the returned price is at least as far from
\* current_price as base is, and farther whenever the padding amounts to
\* more than half a quantum.
C19_PaddedAwayFromCurrent ==
    Padded(last) =>
        LET cur == CurrentOf(last)
            base == BaseOf(last)
        IN  /\ last.side = "buy" => last.ret >= base /\ base > cur
            /\ last.side = "sell" => last.ret <= base /\ base < cur
            /\ Abs(last.ret - cur) >= Abs(base - cur)
            /\ 2 * base * limit_price_slippage > 1000 =>
                  Abs(last.ret - cur) > Abs(base - cur)

\* C19 witness: a buy above the current price was priced above its base.
C19_Witness ==
    /\ Padded(last)
    /\ last.side = "buy"
    /\ CurrentOf(last) = 1500
    /\ BaseOf(last) = 2000
    /\ last.ret = 2002

\* C16: in percent mode the size calc_size returns never implies an
\* allocation above the cap: size * price <= min(balance * percent_of_balance,
\* max_exposure_usd) for every positive price, the size taken as returned,
\* after its rounding to 8 decimal places.  Both sides are compared in units
\* of 10^-16.
C16_SizeWithinCap ==
    (last.op = "calc_size" /\ ~last.ret.raised /\ last.price > 0) =>
        LET pct == Get(strategy, "percent_of_balance", PercentOfBalance)
            cap == Get(strategy, "max_exposure_usd", MaxExposure)
            allocated100 == Min(last.bal.availBal * pct, cap * 100)
        IN  last.ret.size * last.price <= allocated100 * 10 ^ (Decimals - 2)

\* C17 amended: in dry-run every record has state live or canceled; in live
\* mode a record is created with the state the gateway's place-order
\* response carries, live when it carries none, and no later call changes
\* the state of a record: the bot itself sets no state but live and canceled.
C17_StateSetAtPlacement ==
    [][\A id \in DOMAIN order_state' :
          LET st == order_state'[id].state
          IN  \/ id \in DOMAIN order_state /\ order_state[id].state = st
              \/ strategy.dry_run /\ st \in {"live", "canceled"}
              \/ /\ ~strategy.dry_run
                 /\ last'.op = "process"
                 /\ last'.outcome = "placed"
                 /\ last'.ret.ordId = id
                 /\ st = Get(last'.place_resp, "state", "live")]_vars

\* C17 witness: in live mode a sweep canceled a timed-out order and left in
\* the ledger a record of the same age whose state the gateway had reported
\* as filled.
C17_Witness ==
    /\ ~strategy.dry_run
    /\ last.op = "manage"
    /\ \E gone \in DOMAIN last.resps : gone \notin DOMAIN order_state
    /\ \E id \in DOMAIN order_state :
          /\ order_state[id].state = "filled"
          /\ now - order_state[id].created_at.utc > CancelAfter

====
